---- MODULE Spec2Model ----
(***************************************************************************)
(* Model of tabpipe/mapper.py: the ColumnIdMapper, ValueSubber and Mapper  *)
(* luigi tasks.  Files are modelled as CSV text: a sequence of rows, each  *)
(* row a sequence of cell texts.  Values inside a pandas object are typed  *)
(* records [ty, s]: ty is "int", "float", "str" or "nan" and s is the text *)
(* of the value (for a float, the text of its integral value).             *)
(***************************************************************************)
EXTENDS Integers, Sequences, FiniteSets, TLC

\* ------------------------------------------------------------------------
\* Bounds of the model.
MaxRows == 1          \* rows of the table in the orchestration runs (Spec)
MaxLen == 3           \* rows of the table in the single-column runs (SpecColumn)
MaxNames == 3         \* column names given to the abbreviation (SpecAbbrev)

\* ------------------------------------------------------------------------
\* Texts.
Digits == <<"0", "1", "2", "3", "4", "5", "6", "7", "8", "9">>
FloatDigits == <<"0.0", "1.0", "2.0", "3.0", "4.0", "5.0", "6.0", "7.0", "8.0", "9.0">>
IntTexts == {Digits[i] : i \in 1..Len(Digits)}
FloatTexts == {FloatDigits[i] : i \in 1..Len(FloatDigits)}
\* texts pandas.read_csv reads as a missing value (the ones in use here)
NaTexts == {"", "NA"}

\* str(n) for a row index or an id
IntText(n) == Digits[n + 1]
\* int(s) for s in IntTexts
TextInt(s) == CHOOSE n \in 0..(Len(Digits) - 1) : Digits[n + 1] = s
\* integral value text of a float text: "1.0" -> "1"
FloatBase(s) == Digits[CHOOSE i \in 1..Len(FloatDigits) : FloatDigits[i] = s]
\* repr of the float whose integral value has text s: "1" -> "1.0"
FloatText(s) == FloatDigits[TextInt(s) + 1]

NaN == [ty |-> "nan", s |-> ""]
IntV(s) == [ty |-> "int", s |-> s]
FloatV(s) == [ty |-> "float", s |-> s]
StrV(s) == [ty |-> "str", s |-> s]

RangeOf(q) == {q[i] : i \in 1..Len(q)}

\* ------------------------------------------------------------------------
\* pandas: parsing and writing one CSV column.

\* dtype read_csv infers for a column of cell texts
InferType(texts) ==
    IF texts # <<>> /\ RangeOf(texts) \subseteq IntTexts THEN "int"
    ELSE IF RangeOf(texts) \subseteq (IntTexts \cup FloatTexts \cup NaTexts) THEN "float"
    ELSE "object"

ParseCell(dtype, s) ==
    IF dtype = "int" THEN IntV(s)
    ELSE IF s \in NaTexts THEN NaN
    ELSE IF dtype = "float" THEN (IF s \in FloatTexts THEN FloatV(FloatBase(s)) ELSE FloatV(s))
    ELSE StrV(s)

\* read_csv on one column: the typed values
ParseColumn(texts) == [i \in 1..Len(texts) |-> ParseCell(InferType(texts), texts[i])]

\* to_csv on one value (na_rep is the empty string)
CellText(v) ==
    IF v.ty = "nan" THEN ""
    ELSE IF v.ty = "float" THEN FloatText(v.s)
    ELSE v.s

\* ------------------------------------------------------------------------
\* pandas: Series.drop_duplicates().reset_index()[colname]
\* keeps the first occurrence of each value, in order; NaN equals NaN.
RECURSIVE DropDuplicates(_)
DropDuplicates(vals) ==
    IF vals = <<>> THEN <<>>
    ELSE LET front == DropDuplicates(SubSeq(vals, 1, Len(vals) - 1))
             v == vals[Len(vals)]
         IN  IF v \in RangeOf(front) THEN front ELSE Append(front, v)

\* ------------------------------------------------------------------------
\* Files and tables.  A file is [exists, rows]; rows is the CSV text.
Absent == [exists |-> FALSE, rows |-> <<>>]
File(rows) == [exists |-> TRUE, rows |-> rows]

\* position of a column name in a header row
ColPos(header, c) == CHOOSE i \in 1..Len(header) : header[i] = c
\* the cell texts of column c of a CSV text with a header row
ColTexts(rows, c) ==
    [i \in 1..(Len(rows) - 1) |-> rows[i + 1][ColPos(rows[1], c)]]
\* TableTransform.read_input_table: the data frame of one column of the table
ReadColumn(rows, c) == ParseColumn(ColTexts(rows, c))

\* drop_duplicates() without reset_index(): the index written as the id is
\* the row of the first occurrence of the value
IdMapRowsNoReset(vals) ==
    LET mapping == DropDuplicates(vals)
        first(v) == CHOOSE i \in 1..Len(vals) :
                        vals[i] = v /\ \A j \in 1..(i - 1) : vals[j] # v
    IN  [i \in 1..Len(mapping) |-> <<IntText(first(mapping[i]) - 1), CellText(mapping[i])>>]

\* ------------------------------------------------------------------------
\* ColumnIdMapper.run: the id map file of a column (typed values vals):
\* drop_duplicates, reset_index, to_csv(index=True) without a header row.
IdMapRows(vals) ==
    LET mapping == DropDuplicates(vals)
    IN  [i \in 1..Len(mapping) |-> <<IntText(i - 1), CellText(mapping[i])>>]

\* ------------------------------------------------------------------------
\* ValueSubber.run.
\* pd.read_csv(f, index_col=1, header=None) reduced to a Series: the index is
\* the parsed second column, the data the parsed first column.
IdMapIndex(rows) == ParseColumn([i \in 1..Len(rows) |-> rows[i][2]])
IdMapData(rows) == ParseColumn([i \in 1..Len(rows) |-> rows[i][1]])
IdMapIndexType(rows) == InferType([i \in 1..Len(rows) |-> rows[i][2]])

\* label equality of an index entry and a key (1 and 1.0 are the same label)
IsNum(v) == v.ty \in {"int", "float"}
SameLabel(a, b) == a = b \/ (IsNum(a) /\ IsNum(b) /\ a.s = b.s)

\* idmap[val]: the Series lookup of line 65.  A float key, NaN included, on
\* an index that is not numeric is refused before the labels are looked at
\* (TypeError); only pandas builds before 0.18 (floatPos) take an integral
\* float key there, as a position.  Otherwise a label of the index wins; with
\* no such label an integer key on a non-numeric index falls back to the
\* position (Index.get_value).  Every other miss is a KeyError.
Lookup(rows, val, floatPos) ==
    LET index == IdMapIndex(rows)
        data == IdMapData(rows)
        hits == {i \in 1..Len(index) : SameLabel(index[i], val)}
        refused == IdMapIndexType(rows) = "object"
                   /\ (val.ty = "nan" \/ (val.ty = "float" /\ ~floatPos))
        positional == IdMapIndexType(rows) = "object"
                      /\ (val.ty = "int" \/ (val.ty = "float" /\ floatPos))
                      /\ TextInt(val.s) + 1 <= Len(index)
    IN  IF refused THEN [ok |-> FALSE, v |-> NaN]
        ELSE IF hits # {} THEN [ok |-> TRUE, v |-> data[CHOOSE i \in hits : TRUE]]
        ELSE IF positional THEN [ok |-> TRUE, v |-> data[TextInt(val.s) + 1]]
        ELSE [ok |-> FALSE, v |-> NaN]

\* the whole run: [ok, rows].  An empty id map file cannot be parsed
\* (read_csv raises on a file with no columns); a missed lookup raises before
\* the output is opened.  The output is to_csv(columns=[col], index=True).
ValueSubberRun(idmapRows, vals, col, floatPos) ==
    LET looked == [i \in 1..Len(vals) |-> Lookup(idmapRows, vals[i], floatPos)]
    IN  IF idmapRows = <<>> THEN [ok |-> FALSE, rows |-> <<>>]
        ELSE IF \E i \in 1..Len(vals) : ~looked[i].ok THEN [ok |-> FALSE, rows |-> <<>>]
        ELSE [ok |-> TRUE,
              rows |-> <<(<<"", col>>)>> \o
                       [i \in 1..Len(vals) |-> <<IntText(i - 1), CellText(looked[i].v)>>]]

\* ------------------------------------------------------------------------
\* ColumnReplacer.run: the table with column col replaced by the replacement
\* file's column, row by row on the row index.
ColumnReplacerRun(tableRows, replRows, col) ==
    LET p == ColPos(tableRows[1], col)
    IN  [i \in 1..Len(tableRows) |->
            IF i = 1 THEN tableRows[1]
            ELSE [j \in 1..Len(tableRows[i]) |->
                     IF j = p THEN replRows[i][2] ELSE tableRows[i][j]]]

\* ------------------------------------------------------------------------
\* Tasks.  A task is a record of its parameters: table and dep hold the task
\* given as the table and as the idmap / replacement parameter (a sequence of
\* at most one task); outname is "" when the parameter is left at None.
TName == "T"
SaveDir == "out"
ColNames == {"a", "b"}
Header == <<"a", "b", "z">>

\* the input table, an external task whose output is the table file
TableTask == [kind |-> "table", table |-> <<>>, col |-> "", dep |-> <<>>, outname |-> TName]
\* what the module-level name `mapper` holds when the star import binds it
ExtTask == [kind |-> "ext", table |-> <<>>, col |-> "", dep |-> <<>>, outname |-> "mapper"]

ColumnIdMapper(table, colname) ==
    [kind |-> "idmap", table |-> <<table>>, col |-> colname, dep |-> <<>>, outname |-> ""]
ValueSubber(table, idmap, colname) ==
    [kind |-> "idsub", table |-> <<table>>, col |-> colname, dep |-> <<idmap>>, outname |-> ""]
ColumnReplacer(table, replacement, colname) ==
    [kind |-> "replace", table |-> <<table>>, col |-> colname, dep |-> <<replacement>>,
     outname |-> ""]

\* self.table.tname
TNameOf(t) == t.table[1].outname

\* output(): os.path.join(savedir, outname), the default outname being
\* '-'.join([tname, colname, suffix]); a path is <<savedir, name parts>>
IdMapperOutput(t) ==
    IF t.outname # "" THEN <<SaveDir, <<t.outname>> >>
    ELSE <<SaveDir, <<TNameOf(t), t.col, "idmap">> >>
\* a default name without the column: '-'.join([tname, 'idsub'])
SubberOutputNoColumn(t) ==
    IF t.outname # "" THEN <<SaveDir, <<t.outname>> >>
    ELSE <<SaveDir, <<TNameOf(t), "idsub">> >>
SubberOutput(t) ==
    IF t.outname # "" THEN <<SaveDir, <<t.outname>> >>
    ELSE <<SaveDir, <<TNameOf(t), t.col, "idsub">> >>
ReplacerOutput(t) ==
    IF t.outname # "" THEN <<SaveDir, <<t.outname>> >>
    ELSE <<SaveDir, <<TNameOf(t), t.col, "colrep">> >>
Output(t) ==
    IF t.kind = "idmap" THEN IdMapperOutput(t)
    ELSE IF t.kind = "idsub" THEN SubberOutput(t)
    ELSE IF t.kind = "replace" THEN ReplacerOutput(t)
    ELSE <<SaveDir, <<t.outname>> >>

\* a ValueSubber that requires its table only
RequiresTableOnly(t) == RangeOf(t.table)
\* ValueSubber.requires (lines 44-48): the table and the id map
ValueSubberRequires(t) == RangeOf(t.table) \cup RangeOf(t.dep)
\* ColumnReplacer.requires: the table and the replacement column
ColumnReplacerRequires(t) == RangeOf(t.table) \cup RangeOf(t.dep)
\* requires(): the tasks whose outputs the task reads; a ColumnIdMapper
\* requires its table, the input table nothing
Requires(t) ==
    IF t.kind = "idsub" THEN ValueSubberRequires(t)
    ELSE IF t.kind = "replace" THEN ColumnReplacerRequires(t)
    ELSE RangeOf(t.table)

\* ------------------------------------------------------------------------
\* Mapper.__init__: the three tasks of one column, and the three lists.
IdMapperFor(colname) == ColumnIdMapper(TableTask, colname)
SubberFor(colname) == ValueSubber(TableTask, IdMapperFor(colname), colname)
ReplacerFor(colname) == ColumnReplacer(TableTask, SubberFor(colname), colname)

\* line 116 appends the module-level name `mapper`, not the idmapper just made
MapperTasks(colnames) == [i \in 1..Len(colnames) |-> ExtTask]
SubberTasks(colnames) == [i \in 1..Len(colnames) |-> SubberFor(colnames[i])]
ReplacerTasks(colnames) == [i \in 1..Len(colnames) |-> ReplacerFor(colnames[i])]

\* every task the constructor creates for the column list
Generated(colnames) ==
    UNION {{IdMapperFor(colnames[i]), SubberFor(colnames[i]), ReplacerFor(colnames[i])} :
           i \in 1..Len(colnames)}

\* the tasks a task depends on, itself included
RECURSIVE Closure(_)
Closure(t) == {t} \cup UNION {Closure(d) : d \in Requires(t)}

\* ------------------------------------------------------------------------
\* abbrev_names(self.cols), line 86.  A name is the sequence of its characters.
LowerLetters == <<"a", "b", "g", "p", "r">>
UpperLetters == <<"A", "B", "G", "P", "R">>
ToLower(ch) ==
    IF \E i \in 1..Len(UpperLetters) : UpperLetters[i] = ch
    THEN LowerLetters[CHOOSE i \in 1..Len(UpperLetters) : UpperLetters[i] = ch]
    ELSE ch
ToUpper(ch) ==
    IF \E i \in 1..Len(LowerLetters) : LowerLetters[i] = ch
    THEN UpperLetters[CHOOSE i \in 1..Len(LowerLetters) : LowerLetters[i] = ch]
    ELSE ch
LowerCase(name) == [i \in 1..Len(name) |-> ToLower(name[i])]
\* first character upper, the rest lower
TitleCase(name) == [i \in 1..Len(name) |-> IF i = 1 THEN ToUpper(name[i]) ELSE ToLower(name[i])]
Prefix(name, n) == SubSeq(name, 1, n)

\* the length of the shortest name (0 for no name)
ShortestLen(names) ==
    IF names = <<>> THEN 0
    ELSE CHOOSE n \in {Len(names[i]) : i \in 1..Len(names)} :
             \A i \in 1..Len(names) : n <= Len(names[i])

\* the prefixes of length n are pairwise distinct, case ignored
PrefixesDistinct(names, n) ==
    \A i, j \in 1..Len(names) :
        i # j => LowerCase(Prefix(names[i], n)) # LowerCase(Prefix(names[j], n))

RECURSIVE Smash(_)
Smash(parts) == IF parts = <<>> THEN <<>> ELSE Head(parts) \o Smash(Tail(parts))

\* a prefix length is taken as soon as the first two names differ on it
PrefixLengthsFirstPair(names) ==
    {n \in 1..ShortestLen(names) :
        PrefixesDistinct(SubSeq(names, 1, IF Len(names) < 2 THEN Len(names) ELSE 2), n)}
\* the prefix lengths that tell all the names apart
PrefixLengths(names) == {n \in 1..ShortestLen(names) : PrefixesDistinct(names, n)}

\* [ok, out]: the smallest such length, each prefix title-cased, all smashed
\* together; not ok (ambiguous abbreviation) when there is no such length
AbbrevNames(names) ==
    LET ls == PrefixLengths(names)
        n == CHOOSE m \in ls : \A k \in ls : m <= k
    IN  IF ls = {} THEN [ok |-> FALSE, out |-> <<>>]
        ELSE [ok |-> TRUE,
              out |-> Smash([i \in 1..Len(names) |-> TitleCase(Prefix(names[i], n))])]

\* the characters of a column name of the table (one letter each)
NameChars(colname) == <<colname>>

\* ------------------------------------------------------------------------
\* State.
VARIABLES
    fs,             \* the files: path -> [exists, rows]
    writable,       \* savedir grants write permission (create, remove)
    cols,           \* Mapper.cols, the columns to remap
    outname,        \* Mapper.outname, "" when left at None
    mapper_bound,   \* the star import binds the module-level name `mapper`
    pc,             \* "new", "constructed", "raised"; "none": no Mapper
    mapper_tasks,
    subber_tasks,
    replacer_tasks,
    final_task,     \* <<task>> once set
    scheduled,      \* Mapper.run has been called
    last            \* the last operation and how it ended

vars == <<fs, writable, cols, outname, mapper_bound, pc, mapper_tasks, subber_tasks,
          replacer_tasks, final_task, scheduled, last>>

\* Mapper.all_tasks
all_tasks == mapper_tasks \o subber_tasks \o replacer_tasks

Op(op, task, outcome, enoent, eacces) ==
    [op |-> op, task |-> task, outcome |-> outcome, enoent |-> enoent, eacces |-> eacces]

\* luigi: a task is complete on the files f when its output exists
Complete(f, t) == f[Output(t)].exists

\* ------------------------------------------------------------------------
\* Initial states: the table file is in place, nothing has been produced.
AlphaA == {"A", "B", "NA"}
AlphaB == {"0", "NA"}
ZText(i) == IF i % 2 = 1 THEN "x" ELSE "y"

\* the CSV texts of the tables of n rows
TableRows(n) ==
    {<<Header>> \o [i \in 1..n |-> <<ca[i], cb[i], ZText(i)>>] :
        ca \in [1..n -> AlphaA], cb \in [1..n -> AlphaB]}
Tables(max) == UNION {TableRows(n) : n \in 0..max}

\* the outname parameter a Mapper is built with
MapperOutNames == {"", "res"}
\* the column lists a Mapper is built for
ColLists == UNION {[1..n -> ColNames] : n \in 0..2}

\* the tasks runnable on their own: any id map may be given to a ValueSubber
StandaloneTasks ==
    {IdMapperFor(c) : c \in ColNames}
    \cup {ValueSubber(TableTask, IdMapperFor(m), c) : m \in ColNames, c \in ColNames}

Paths ==
    {Output(t) : t \in {TableTask, ExtTask} \cup StandaloneTasks
                       \cup {ReplacerFor(c) : c \in ColNames}}
    \cup {<<SaveDir, <<o>> >> : o \in MapperOutNames \ {""}}

InitFiles(rows, ext) ==
    [p \in Paths |->
        IF p = Output(TableTask) THEN File(rows)
        ELSE IF p = Output(ExtTask) /\ ext THEN File(<<>>)
        ELSE Absent]

NoOp == Op("none", <<>>, "", 0, 0)

Init ==
    /\ \E rows \in Tables(MaxRows), ext \in BOOLEAN : fs = InitFiles(rows, ext)
    /\ writable = TRUE
    /\ cols \in ColLists
    /\ outname \in MapperOutNames
    /\ mapper_bound \in BOOLEAN
    /\ pc = "new"
    /\ mapper_tasks = <<>>
    /\ subber_tasks = <<>>
    /\ replacer_tasks = <<>>
    /\ final_task = <<>>
    /\ scheduled = FALSE
    /\ last = NoOp

\* ------------------------------------------------------------------------
\* Mapper.__init__ (lines 91-120).  With `mapper` unbound the first pass of
\* the loop raises NameError at line 116; with no column the loop never binds
\* `replacer` and line 120 raises UnboundLocalError.
Construct ==
    /\ pc = "new"
    /\ IF cols = <<>>
       THEN /\ pc' = "raised"
            /\ last' = Op("construct", <<>>, "UnboundLocalError", 0, 0)
            /\ UNCHANGED <<mapper_tasks, subber_tasks, replacer_tasks, final_task>>
       ELSE IF ~mapper_bound
       THEN /\ pc' = "raised"
            /\ last' = Op("construct", <<>>, "NameError", 0, 0)
            /\ UNCHANGED <<mapper_tasks, subber_tasks, replacer_tasks, final_task>>
       ELSE /\ pc' = "constructed"
            /\ mapper_tasks' = MapperTasks(cols)
            /\ subber_tasks' = SubberTasks(cols)
            /\ replacer_tasks' = ReplacerTasks(cols)
            /\ final_task' = <<ReplacerFor(cols[Len(cols)])>>
            /\ last' = Op("construct", <<>>, "ok", 0, 0)
    /\ UNCHANGED <<fs, writable, cols, outname, mapper_bound, scheduled>>

\* Mapper.output (lines 77-89): [ok, err, path].  With an outname the path is
\* savedir/outname.  Without, line 86 abbreviates the column names and line 87
\* evaluates `colname-abbrev`, two names bound nowhere: a NameError.
MapperOutputOf(name, colnames) ==
    IF name # "" THEN [ok |-> TRUE, err |-> "", path |-> <<SaveDir, <<name>> >>]
    ELSE IF ~AbbrevNames([i \in 1..Len(colnames) |-> NameChars(colnames[i])]).ok
    THEN [ok |-> FALSE, err |-> "NamingError", path |-> <<>>]
    ELSE [ok |-> FALSE, err |-> "NameError", path |-> <<>>]

\* output() called on the constructed Mapper (by luigi or by the user)
MapperOutput ==
    /\ pc = "constructed"
    /\ LET r == MapperOutputOf(outname, cols)
       IN  last' = Op("output", <<>>, IF r.ok THEN "ok" ELSE r.err, 0, 0)
    /\ UNCHANGED <<fs, writable, cols, outname, mapper_bound, pc, mapper_tasks, subber_tasks,
                   replacer_tasks, final_task, scheduled>>

\* ------------------------------------------------------------------------
\* The run() of a task on the files f: [ok, rows]
TableRowsOf(f, t) == f[Output(t.table[1])].rows
DepRowsOf(f, t) == f[Output(t.dep[1])].rows

ColumnIdMapperRun(f, t) ==
    [ok |-> TRUE, rows |-> IdMapRows(ReadColumn(TableRowsOf(f, t), t.col))]

TaskRun(f, t, floatPos) ==
    IF t.kind = "idmap" THEN ColumnIdMapperRun(f, t)
    ELSE IF t.kind = "idsub"
    THEN ValueSubberRun(DepRowsOf(f, t), ReadColumn(TableRowsOf(f, t), t.col), t.col,
                        floatPos)
    ELSE [ok |-> TRUE, rows |-> ColumnReplacerRun(TableRowsOf(f, t), DepRowsOf(f, t), t.col)]

\* a task writing over the table it read
WrittenOverTable(f, t, rows) == [f EXCEPT ![Output(t.table[1])] = File(rows)]
\* `with self.output().open('w') as f: ...to_csv(f)`: the files once task t
\* has written rows
Written(f, t, rows) == [f EXCEPT ![Output(t)] = File(rows)]

\* The scheduler invoking task t on the files f, savedir writable or not (w):
\* [fs, outcome].  A complete task is skipped; a task with a requirement that
\* is not complete is not run; otherwise run() is called, and the output
\* appears only when run() reaches the end of its
\* `with self.output().open('w')` block.
Invoked(f, t, w, floatPos) ==
    IF Complete(f, t) THEN [fs |-> f, outcome |-> "skipped"]
    ELSE IF \E d \in Requires(t) : ~Complete(f, d) THEN [fs |-> f, outcome |-> "unfulfilled"]
    ELSE LET r == TaskRun(f, t, floatPos)
         IN  IF r.ok /\ w THEN [fs |-> Written(f, t, r.rows), outcome |-> "ran"]
             ELSE [fs |-> f, outcome |-> "failed"]

\* The scheduler building task t: a complete task is left alone with all it
\* requires; otherwise what it requires is built first and then t is invoked.
\* The input table and the foreign task have no run() of their own.
RECURSIVE Build(_, _, _, _)
RECURSIVE BuildAll(_, _, _, _)
BuildAll(f, tasks, w, floatPos) ==
    IF tasks = {} THEN f
    ELSE LET d == CHOOSE d \in tasks : TRUE
         IN  BuildAll(Build(f, d, w, floatPos), tasks \ {d}, w, floatPos)
Build(f, t, w, floatPos) ==
    IF Complete(f, t) \/ t.kind \in {"table", "ext"} THEN f
    ELSE Invoked(BuildAll(f, Requires(t), w, floatPos), t, w, floatPos).fs

\* one task handed to the scheduler whose requirements are in place
Invoke(t) ==
    /\ Complete(fs, t) \/ \A d \in Requires(t) : Complete(fs, d)
    /\ \E floatPos \in BOOLEAN :
         LET r == Invoked(fs, t, writable, floatPos)
         IN  /\ fs' = r.fs
             /\ last' = Op("run", <<t>>, r.outcome, 0, 0)
    /\ UNCHANGED <<writable, cols, outname, mapper_bound, pc, mapper_tasks, subber_tasks,
                   replacer_tasks, final_task, scheduled>>

\* Mapper.run (lines 122-123): schedule_task(self.final_task) submits
\* final_task and runs the scheduler on it: final_task and what it requires
\* are built before the call returns.
MapperRun ==
    /\ pc = "constructed"
    /\ \E floatPos \in BOOLEAN :
         LET f == Build(fs, final_task[1], writable, floatPos)
         IN  /\ fs' = f
             /\ last' = Op("schedule", final_task,
                           IF Complete(f, final_task[1]) THEN "ok" ELSE "failed", 0, 0)
    /\ scheduled' = TRUE
    /\ UNCHANGED <<writable, cols, outname, mapper_bound, pc, mapper_tasks, subber_tasks,
                   replacer_tasks, final_task>>

\* The Mapper handed to the scheduler as a task: complete() asks
\* output().exists(), which raises what output() raises; a complete Mapper
\* is skipped, otherwise run() is called.
MapperInvoke ==
    /\ pc = "constructed"
    /\ LET o == MapperOutputOf(outname, cols)
       IN  IF ~o.ok
           THEN /\ last' = Op("invoke", final_task, o.err, 0, 0)
                /\ UNCHANGED <<fs, scheduled>>
           ELSE IF fs[o.path].exists
           THEN /\ last' = Op("invoke", final_task, "skipped", 0, 0)
                /\ UNCHANGED <<fs, scheduled>>
           ELSE /\ \E floatPos \in BOOLEAN :
                     LET f == Build(fs, final_task[1], writable, floatPos)
                     IN  /\ fs' = f
                         /\ last' = Op("invoke", final_task,
                                       IF Complete(f, final_task[1]) THEN "ok"
                                       ELSE "failed", 0, 0)
                /\ scheduled' = TRUE
    /\ UNCHANGED <<writable, cols, outname, mapper_bound, pc, mapper_tasks, subber_tasks,
                   replacer_tasks, final_task>>

\* a generated task run through luigi on its own
UserRun ==
    /\ pc = "constructed"
    /\ \E t \in Generated(cols) : Invoke(t)

\* a task outside any Mapper run through luigi
StandaloneRun ==
    /\ pc = "none"
    /\ \E t \in StandaloneTasks : Invoke(t)

\* the user changing the permissions of savedir
Chmod ==
    /\ pc = "constructed"
    /\ writable' = ~writable
    /\ last' = Op("chmod", <<>>, "ok", 0, 0)
    /\ UNCHANGED <<fs, cols, outname, mapper_bound, pc, mapper_tasks, subber_tasks,
                   replacer_tasks, final_task, scheduled>>

\* ------------------------------------------------------------------------
\* Mapper.delete_intermediates (lines 129-135).
\* os.remove(path): the errno it fails with, "" when it removes the file
OsRemove(files, w, path) ==
    IF ~files[path].exists THEN "ENOENT"
    ELSE IF ~w THEN "EACCES"
    ELSE ""

\* a handler that passes over permission errors only
SwallowedAccessOnly(errno) == errno = "EACCES"
\* `except OSError: pass`: both errnos are OSError, neither leaves the loop
Swallowed(errno) == errno \in {"ENOENT", "EACCES"}

\* the loop over tasks, from the state st = [fs, enoent, eacces, raised]
RECURSIVE DeleteLoop(_, _, _)
DeleteLoop(tasks, w, st) ==
    IF tasks = <<>> \/ st.raised THEN st
    ELSE LET path == Output(Head(tasks))
             e == OsRemove(st.fs, w, path)
             next == [fs |-> IF e = "" THEN [st.fs EXCEPT ![path] = Absent] ELSE st.fs,
                      enoent |-> st.enoent + (IF e = "ENOENT" THEN 1 ELSE 0),
                      eacces |-> st.eacces + (IF e = "EACCES" THEN 1 ELSE 0),
                      raised |-> e # "" /\ ~Swallowed(e)]
         IN  DeleteLoop(Tail(tasks), w, next)

\* the files after delete_intermediates on the files f
Deleted(f) == DeleteLoop(all_tasks, writable, [fs |-> f, enoent |-> 0, eacces |-> 0,
                                              raised |-> FALSE])

DeleteIntermediates ==
    /\ pc = "constructed"
    /\ LET st == Deleted(fs)
       IN  /\ fs' = st.fs
           /\ last' = Op("delete", <<>>, IF st.raised THEN "raised" ELSE "ok",
                         st.enoent, st.eacces)
    /\ UNCHANGED <<writable, cols, outname, mapper_bound, pc, mapper_tasks, subber_tasks,
                   replacer_tasks, final_task, scheduled>>

\* ------------------------------------------------------------------------
Next ==
    \/ Construct
    \/ MapperRun
    \/ MapperInvoke
    \/ UserRun
    \/ DeleteIntermediates
    \/ Chmod
    \/ MapperOutput

Spec == Init /\ [][Next]_vars

\* Single tasks on a table, no Mapper: the runs of ColumnIdMapper and
\* ValueSubber on every column of every table of up to MaxLen rows.
InitColumn ==
    /\ \E rows \in Tables(MaxLen) : fs = InitFiles(rows, FALSE)
    /\ writable = TRUE
    /\ cols = <<>>
    /\ outname = ""
    /\ mapper_bound = FALSE
    /\ pc = "none"
    /\ mapper_tasks = <<>>
    /\ subber_tasks = <<>>
    /\ replacer_tasks = <<>>
    /\ final_task = <<>>
    /\ scheduled = FALSE
    /\ last = NoOp

NextColumn == StandaloneRun

SpecColumn == InitColumn /\ [][NextColumn]_vars

\* The abbreviation on its own: abbrev_names on every list of up to MaxNames
\* names; cols holds the names, last the result.
Names ==
    {<<"g">>, <<"g", "r">>, <<"g", "p">>, <<"G", "r">>, <<"r", "a">>, <<"g", "r", "a">>}
NameLists == UNION {[1..n -> Names] : n \in 1..MaxNames}

InitAbbrev ==
    /\ fs = InitFiles(<<Header>>, FALSE)
    /\ writable = TRUE
    /\ cols \in NameLists
    /\ outname = ""
    /\ mapper_bound = FALSE
    /\ pc = "names"
    /\ mapper_tasks = <<>>
    /\ subber_tasks = <<>>
    /\ replacer_tasks = <<>>
    /\ final_task = <<>>
    /\ scheduled = FALSE
    /\ last = NoOp

Abbreviate ==
    /\ pc = "names"
    /\ pc' = "abbreviated"
    /\ LET r == AbbrevNames(cols)
       IN  last' = Op("abbrev", <<r.out>>, IF r.ok THEN "ok" ELSE "NamingError", 0, 0)
    /\ UNCHANGED <<fs, writable, cols, outname, mapper_bound, mapper_tasks, subber_tasks,
                   replacer_tasks, final_task, scheduled>>

NextAbbrev == Abbreviate

SpecAbbrev == InitAbbrev /\ [][NextAbbrev]_vars

\* ------------------------------------------------------------------------
\* Properties.
SourceRows == fs[Output(TableTask)].rows
SourceColumn(c) == ReadColumn(SourceRows, c)
Distinct(q) == \A i, j \in 1..Len(q) : q[i] = q[j] => i = j
Exists(t) == fs[Output(t)].exists
RowsAt(t) == fs[Output(t)].rows

\* C1: in the graph built for two or more columns, the splice task of the
\* first column takes the original table and the splice task of every later
\* column takes the output of the splice task of the column before it.
C1_SplicesChained ==
    (pc = "constructed" /\ Len(cols) >= 2 /\ Distinct(cols)) =>
        \A i \in 1..Len(replacer_tasks) :
            replacer_tasks[i].table =
                IF i = 1 THEN <<TableTask>> ELSE <<replacer_tasks[i - 1]>>

\* the ids a column gets from its own id map, as the texts of a CSV column
OwnIds(c) ==
    LET r == ValueSubberRun(IdMapRows(SourceColumn(c)), SourceColumn(c), c, FALSE)
    IN  [i \in 1..(Len(r.rows) - 1) |-> r.rows[i + 1][2]]

\* C2: for two or more distinct columns, once every generated task has run,
\* the artifact of final_task holds, in every requested column, the ids of
\* that column's own id map and, in every other column, the source's cells.
C2_FinalTableRemapped ==
    (/\ pc = "constructed"
     /\ Len(cols) >= 2
     /\ Distinct(cols)
     /\ \A t \in Generated(cols) : Exists(t)) =>
        LET out == RowsAt(final_task[1])
        IN  /\ Len(out) = Len(SourceRows)
            /\ out[1] = Header
            /\ \A c \in RangeOf(Header) :
                 ColTexts(out, c) =
                     IF c \in RangeOf(cols) THEN OwnIds(c) ELSE ColTexts(SourceRows, c)

\* the first row at which value v occurs in the column
FirstPos(vals, v) == CHOOSE i \in 1..Len(vals) :
                        vals[i] = v /\ \A j \in 1..(i - 1) : vals[j] # v
\* the rank of v among the distinct values in first-occurrence order
Rank(vals, v) ==
    Cardinality({w \in RangeOf(vals) : FirstPos(vals, w) < FirstPos(vals, v)})

\* C3: the id map ColumnIdMapper.run persists has exactly k rows, k the
\* number of distinct values with all missing entries counted as one; its ids
\* are exactly 0..k-1, every value has exactly one id, and the id of a value
\* is its rank in first-occurrence order.
C3_IdMapContiguous ==
    \A c \in ColNames :
        Exists(IdMapperFor(c)) =>
            LET vals == SourceColumn(c)
                rows == RowsAt(IdMapperFor(c))
                k == Cardinality(RangeOf(vals))
                index == IdMapIndex(rows)
            IN  /\ Len(rows) = k
                /\ {rows[i][1] : i \in 1..Len(rows)} = {IntText(n) : n \in 0..(k - 1)}
                /\ \A v \in RangeOf(vals) :
                     /\ Cardinality({i \in 1..Len(rows) : index[i] = v}) = 1
                     /\ \A i \in 1..Len(rows) :
                          index[i] = v => rows[i][1] = IntText(Rank(vals, v))

\* an id map was written for a column with a duplicate and two missing entries
C3_Witness ==
    \E c \in ColNames :
        /\ Exists(IdMapperFor(c))
        /\ Cardinality({i \in 1..Len(SourceColumn(c)) : SourceColumn(c)[i] = NaN}) >= 2
        /\ Cardinality(RangeOf(SourceColumn(c))) >= 2

\* the ValueSubber of column c given the id map of the same column
OwnSubber(c) == ValueSubber(TableTask, IdMapperFor(c), c)
\* run() of task t was the last operation and it was not skipped
JustRan(t) == last.op = "run" /\ last.task = <<t>> /\ last.outcome # "skipped"

\* the value the id map file lists for an id text
ValueOfId(mapRows, id) ==
    IdMapIndex(mapRows)[CHOOSE j \in 1..Len(mapRows) : mapRows[j][1] = id]

\* the substituted file holds one row per row of the column, in row order,
\* and replacing each id by the value the id map lists for it gives the column
Recovers(c) ==
    LET vals == SourceColumn(c)
        sub == RowsAt(OwnSubber(c))
        map == RowsAt(IdMapperFor(c))
    IN  /\ Len(sub) = Len(vals) + 1
        /\ \A i \in 1..Len(vals) :
             /\ sub[i + 1][1] = IntText(i - 1)
             /\ \E j \in 1..Len(map) : map[j][1] = sub[i + 1][2]
             /\ ValueOfId(map, sub[i + 1][2]) = vals[i]

\* C4: for every column, substituting it with the id map built from it
\* succeeds, and replacing each id by the value the id map lists for it
\* recovers the column row by row, missing entries included.
C4_RoundTripEveryColumn ==
    \A c \in ColNames :
        JustRan(OwnSubber(c)) => (last.outcome = "ran" /\ Recovers(c))

\* value v has an entry in the id map file
Mapped(mapRows, v) ==
    \E j \in 1..Len(mapRows) : SameLabel(IdMapIndex(mapRows)[j], v)

\* C5: when the column holds a value with no entry in the id map,
\* ValueSubber.run ends in an error and leaves no file at its output.
C5_UnmappedValueFails ==
    \A t \in StandaloneTasks :
        (/\ t.kind = "idsub"
         /\ JustRan(t)
         /\ \E v \in RangeOf(SourceColumn(t.col)) : ~Mapped(RowsAt(t.dep[1]), v)) =>
            (last.outcome = "failed" /\ ~Exists(t))

C7_AllTasksListed ==
    pc = "constructed" =>
        /\ mapper_tasks = [i \in 1..Len(cols) |-> IdMapperFor(cols[i])]
        /\ subber_tasks = [i \in 1..Len(cols) |-> SubberFor(cols[i])]
        /\ replacer_tasks = [i \in 1..Len(cols) |-> ReplacerFor(cols[i])]
        /\ all_tasks = mapper_tasks \o subber_tasks \o replacer_tasks

\* C8: delete_intermediates keeps the output of final_task when it was there
\* and leaves no output of any other generated task.
C8_OnlyFinalSurvives ==
    [][DeleteIntermediates =>
        /\ Exists(final_task[1]) => fs'[Output(final_task[1])].exists
        /\ \A t \in Generated(cols) \ {final_task[1]} : ~fs'[Output(t)].exists]_vars

\* C9: delete_intermediates never fails on an absent artifact, whatever
\* artifacts exist, and a second call right after it changes nothing.
C9_DeleteTolerant ==
    last.op = "delete" => (last.outcome = "ok" /\ Deleted(fs).fs = fs)

\* delete_intermediates ran into an absent artifact and removed another
C9_Witness ==
    /\ last.op = "delete"
    /\ last.enoent > 0
    /\ last.enoent + last.eacces < Len(all_tasks)

\* C10: a removal that fails for another reason than absence (permission
\* denied) makes delete_intermediates raise.
C10_OtherErrorsSurface ==
    (last.op = "delete" /\ last.eacces > 0) => last.outcome = "raised"

\* the i-th chunk of n characters of an abbreviation
Chunk(out, i, n) == SubSeq(out, (i - 1) * n + 1, i * n)
ChunksDistinct(out, count, n) ==
    \A i, j \in 1..count : i # j => LowerCase(Chunk(out, i, n)) # LowerCase(Chunk(out, j, n))
\* out is the names cut to n characters, title-cased, in the given order
AbbreviatesAt(names, out, n) ==
    /\ Len(out) = Len(names) * n
    /\ \A i \in 1..Len(names) : Chunk(out, i, n) = TitleCase(Prefix(names[i], n))
    /\ ChunksDistinct(out, Len(names), n)

\* C11: for pairwise-distinct names the abbreviation is the title-cased
\* prefixes of the smallest length, from 1 up to the length of the shortest
\* name, at which the prefixes are pairwise distinct case-insensitively, in
\* the given order; with no such length it fails; a result never has
\* colliding chunks.
C11_AbbreviationSmallestPrefix ==
    pc = "abbreviated" =>
        LET good == {n \in 1..ShortestLen(cols) : PrefixesDistinct(cols, n)}
            out == last.task[1]
        IN  /\ Distinct(cols) =>
                IF good = {} THEN last.outcome = "NamingError"
                ELSE /\ last.outcome = "ok"
                     /\ \E n \in good : (\A k \in good : n <= k) /\ AbbreviatesAt(cols, out, n)
            /\ last.outcome = "ok" =>
                \E n \in 1..ShortestLen(cols) : AbbreviatesAt(cols, out, n)

\* three distinct names that collide on one character were abbreviated to two
C11_Witness ==
    /\ pc = "abbreviated"
    /\ Len(cols) = 3
    /\ Distinct(cols)
    /\ ~PrefixesDistinct(cols, 1)
    /\ last.outcome = "ok"
    /\ Len(last.task[1]) = 6

\* the column names have an abbreviation
Abbreviable(colnames) ==
    AbbrevNames([i \in 1..Len(colnames) |-> NameChars(colnames[i])]).ok

\* C12: construction fails for an empty column list and for a list naming a
\* column twice, and succeeds for a non-empty list of pairwise-distinct,
\* abbreviable names.
C12_ConstructionChecksNames ==
    pc \in {"constructed", "raised"} =>
        /\ (cols = <<>> \/ ~Distinct(cols)) => pc = "raised"
        /\ (cols # <<>> /\ Distinct(cols) /\ Abbreviable(cols)) => pc = "constructed"

\* C13: when the names cannot be abbreviated the naming failure is raised
\* while the graph is constructed: no generated task has an artifact when it
\* is raised.
C13_NamingFailsBeforeAnyRun ==
    (last.op = "output" /\ last.outcome = "NamingError") =>
        \A t \in Generated(cols) : ~Exists(t)

\* C14: output() is savedir/outname when an outname is given, and otherwise
\* savedir joined with <tname>-<colname>-idmap (ColumnIdMapper),
\* <tname>-<colname>-idsub (ValueSubber), <tname>-Map<abbreviation> (Mapper).
C14_OutputLocations ==
    /\ \A c \in ColNames :
         /\ Output(IdMapperFor(c)) = <<SaveDir, <<TName, c, "idmap">> >>
         /\ Output([IdMapperFor(c) EXCEPT !.outname = "m"]) = <<SaveDir, <<"m">> >>
         /\ Output(SubberFor(c)) = <<SaveDir, <<TName, c, "idsub">> >>
         /\ Output([SubberFor(c) EXCEPT !.outname = "s"]) = <<SaveDir, <<"s">> >>
    /\ last.op = "output" =>
         LET r == MapperOutputOf(outname, cols)
             abbrev == AbbrevNames([i \in 1..Len(cols) |-> NameChars(cols[i])])
         IN  /\ outname # "" => (r.ok /\ r.path = <<SaveDir, <<outname>> >>)
             /\ (outname = "" /\ abbrev.ok) =>
                    (r.ok /\ r.path = <<SaveDir, <<TName, <<"M", "a", "p">> \o abbrev.out>> >>)

\* C15: within a column's chain the ValueSubber never starts before the id
\* map of the column exists and the splice task never starts before the
\* substituted column exists.
C15_ChainOrder ==
    [][\A t \in Generated(cols) :
          /\ (/\ t.kind \in {"idsub", "replace"}
               /\ last'.op = "run" /\ last'.task = <<t>> /\ last' # last
               /\ last'.outcome \in {"ran", "failed"}) =>
                  fs[Output(t.dep[1])].exists
          /\ (/\ t.kind \in {"idsub", "replace"}
               /\ last'.op \in {"schedule", "invoke"}
               /\ ~fs[Output(t)].exists /\ fs'[Output(t)].exists) =>
                  fs'[Output(t.dep[1])].exists]_vars

\* a splice task ran, after the substituter of its column
C15_Witness ==
    /\ last.op = "run"
    /\ last.outcome = "ran"
    /\ last.task[1].kind = "replace"
    /\ Exists(last.task[1].dep[1])

\* C16: final_task is the splice task of the last column and every task of
\* all_tasks is final_task or one of its transitive dependencies.
C16_AllTasksUnderFinal ==
    pc = "constructed" =>
        /\ final_task = <<ReplacerFor(cols[Len(cols)])>>
        /\ \A t \in RangeOf(all_tasks) \ {ExtTask} : t \in Closure(final_task[1])

\* C17: a task that runs changes no file but its own output, the input
\* table never changes, and an artifact that exists keeps its content until
\* delete_intermediates removes it.
C17_WritesOnlyOwnOutput ==
    [][/\ fs'[Output(TableTask)] = fs[Output(TableTask)]
       /\ \A p \in Paths :
            (fs[p].exists /\ fs'[p] # fs[p]) => (last'.op = "delete" /\ ~fs'[p].exists)
       /\ \A t \in Generated(cols) :
            (last'.op = "run" /\ last'.task = <<t>>) =>
                \A p \in Paths \ {Output(t)} : fs'[p] = fs[p]
       /\ last'.op \in {"schedule", "invoke"} =>
            \A p \in Paths :
                fs'[p] # fs[p] =>
                    \E t \in Closure(final_task[1]) \ {TableTask} : p = Output(t)]_vars

\* a task wrote its output while the outputs it read were in place
C17_Witness ==
    /\ last.op = "run"
    /\ last.outcome = "ran"
    /\ last.task[1].kind = "idsub"
    /\ Exists(last.task[1])
    /\ Exists(last.task[1].dep[1])

\* what the chain of column c writes when the chains run one after another
SeqIdMap(c) == IdMapRows(SourceColumn(c))
SeqSub(c) == ValueSubberRun(SeqIdMap(c), SourceColumn(c), c, FALSE).rows
SeqSplice(c) == ColumnReplacerRun(SourceRows, SeqSub(c), c)

\* C18: however the tasks of the columns' chains interleave, the id map and
\* the substituted column of every column, and the final artifact, are those
\* of the run of the chains one after another in column order.
C18_ChainsIndependent ==
    pc = "constructed" =>
        /\ \A i \in 1..Len(cols) :
             /\ Exists(IdMapperFor(cols[i])) =>
                    RowsAt(IdMapperFor(cols[i])) = SeqIdMap(cols[i])
             /\ Exists(SubberFor(cols[i])) =>
                    RowsAt(SubberFor(cols[i])) = SeqSub(cols[i])
        /\ Exists(final_task[1]) => RowsAt(final_task[1]) = SeqSplice(cols[Len(cols)])

\* the substituter of the first column ran after the chain of the second
C18_Witness ==
    /\ pc = "constructed"
    /\ cols = <<"a", "b">>
    /\ last.op = "run"
    /\ last.outcome = "ran"
    /\ last.task = <<SubberFor("a")>>
    /\ Exists(ReplacerFor("b"))
    /\ Len(SourceRows) > 1

\* C19: once Mapper.run has been called and final_task is done, a file
\* exists at the location Mapper.output() gives.
C19_MapperOutputExists ==
    (pc = "constructed" /\ scheduled /\ Exists(final_task[1])) =>
        LET r == MapperOutputOf(outname, cols)
        IN  r.ok /\ fs[r.path].exists

====
